---------------------------- MODULE Spec2Model ----------------------------
(***************************************************************************)
(* Model of src/api/publisher.ts (class Publisher) and                     *)
(* src/api/subscriber.ts (classes Subscriber and SubscriberRequest).       *)
(*                                                                         *)
(* Every method is an operator over a record of the object's fields that   *)
(* returns the record after the call.  A thrown Error is the field err:    *)
(* once it is set, the rest of the call is skipped, as the exception       *)
(* unwinds the stack.  The fields sent and trans are a log of what the     *)
(* call did (requests handed to the core, state transitions attempted);    *)
(* each action starts them empty and stores them in the history variable.  *)
(***************************************************************************)
EXTENDS Integers, Sequences, FiniteSets, TLC

\* undefined, for string-valued fields
Undefined == "undefined"
NoError == "none"

(***************************************************************************)
(* Bounds of the model.                                                    *)
(***************************************************************************)
\* PUBLISH requests that may be awaiting a final response at one time
MaxInflight == 2
\* refresh timers that may be pending at one time
MaxTimers == 2

(***************************************************************************)
(* Publisher: inputs.                                                      *)
(***************************************************************************)
\* publisher.ts:58, the default of options.expires
DefaultExpires == 3600
\* publisher.ts:228, setTimeout(..., pubRequestExpires * 900)
RefreshFactor == 900

Bodies == {"b1", "b2"}
Etags == {"e1", "e2"}
\* options.expires as the application may configure it
ExpiresOptions == {DefaultExpires}
\* Expires of a 2xx response, Number(getHeader("Expires"))
ServerExpires == {-1, 0, 1800, 7200}
\* Min-Expires of a 423 response
ServerMinExpires == {1800, 7200}
StatusCodes == {100, 200, 412, 423, 500}

\* A header is <<>> when absent and <<value>> when present.
hasHeader(h) == h # <<>>
getHeader(h) == h[1]

Responses ==
  [statusCode : {c \in StatusCodes : c \notin {200, 423}},
   etag : {<<>>}, expires : {<<>>}, minExpires : {<<>>}]
  \cup
  [statusCode : {200},
   etag : {<<>>} \cup {<<e>> : e \in Etags},
   expires : {<<>>} \cup {<<n>> : n \in ServerExpires},
   minExpires : {<<>>}]
  \cup
  [statusCode : {423},
   etag : {<<>>}, expires : {<<>>},
   minExpires : {<<>>} \cup {<<n>> : n \in ServerMinExpires}]

(***************************************************************************)
(* Publisher: state.                                                       *)
(***************************************************************************)
VARIABLES
  pubState,             \* Publisher._state
  pubDisposed,          \* Publisher.disposed
  pubRequestBody,       \* Publisher.pubRequestBody
  pubRequestExpires,    \* Publisher.pubRequestExpires
  pubRequestEtag,       \* Publisher.pubRequestEtag
  publishRefreshTimer,  \* Publisher.publishRefreshTimer: a timer id, 0 when undefined
  optionsBody,          \* Publisher.options.body
  optionsExpires,       \* Publisher.options.expires
  unpublishOnClose,     \* Publisher.options.unpublishOnClose
  pubTimers,            \* the timers setTimeout has pending: [id, delay (ms)]
  pubInflight,          \* PUBLISH requests awaiting a final response
  pubDisposePromise,    \* the promise the application's dispose() returned
  pubLast               \* history: the last call, the fields before it, what it did

pubVars == <<pubState, pubDisposed, pubRequestBody, pubRequestExpires, pubRequestEtag,
             publishRefreshTimer, optionsBody, optionsExpires, unpublishOnClose,
             pubTimers, pubInflight, pubDisposePromise, pubLast>>

(***************************************************************************)
(* Subscriber: state.                                                      *)
(***************************************************************************)
VARIABLES
  subState,           \* Subscription._state
  subDisposed,        \* Subscription._disposed
  dialog,             \* Subscription._dialog: an index of dialogs, 0 when undefined
  retryAfterTimer,    \* Subscriber.retryAfterTimer: a timer id, 0 when undefined
  subscriberRequest,  \* Subscriber.subscriberRequest: an index of requests
  requests,           \* every SubscriberRequest built so far, in order
  dialogs,            \* dialogs[c]: the SubscriptionDialog the core made for requests[c]
  core,               \* core[c]: the callbacks the core has made on requests[c]
  subTimers,          \* the timers setTimeout has pending: [id, retryAfter (the
                      \* parameter, s), delay (ms), elapsed (ms)]
  timerCount,         \* timers set so far (timer ids are never reused)
  refreshPending,     \* some re-SUBSCRIBE of dialog.refresh() awaits its response
  subDisposePromise,  \* the promise the application's dispose() returned
  endedByNotify,      \* a NOTIFY with a final reason reached a live Subscriber
  subLast             \* history: the last call, the fields before it, what it did

subVars == <<subState, subDisposed, dialog, retryAfterTimer, subscriberRequest,
             requests, dialogs, core, subTimers, timerCount, refreshPending,
             subDisposePromise, endedByNotify, subLast>>

vars == <<pubVars, subVars>>

(***************************************************************************)
(* Publisher: the object.                                                  *)
(***************************************************************************)
\* The Publisher object as a record, with an empty log.
PublisherFields ==
  [state |-> pubState, disposed |-> pubDisposed, body |-> pubRequestBody,
   expires |-> pubRequestExpires, etag |-> pubRequestEtag,
   timer |-> publishRefreshTimer, optBody |-> optionsBody,
   optExpires |-> optionsExpires, unpublishOnClose |-> unpublishOnClose,
   timers |-> pubTimers,
   err |-> NoError, sent |-> <<>>, trans |-> <<>>]

(***************************************************************************)
(* Publisher: methods.                                                     *)
(***************************************************************************)
\* clearTimeout(id): a timer that is not pending is left alone
clearTimeout(timers, id) == {t \in timers : t.id # id}

\* setTimeout(callback, delay): a new pending timer with a fresh id
FreshTimerId(timers) ==
  CHOOSE i \in 1..(Cardinality(timers) + 1) : \A t \in timers : t.id # i

\* if (this.publishRefreshTimer) { clearTimeout(...); this.publishRefreshTimer = undefined; }
Publisher_clearRefreshTimer(p) ==
  IF p.timer # 0
  THEN [p EXCEPT !.timers = clearTimeout(@, p.timer), !.timer = 0]
  ELSE p

\* The request built from the fields: Expires, SIP-If-Match when an entity tag
\* is held, the body when pubRequestBody is defined.
Publisher_sendPublishRequest(p) ==
  IF p.err # NoError THEN p
  ELSE [p EXCEPT !.sent = Append(@, [expires |-> p.expires,
                                     ifMatch |-> p.etag,
                                     body |-> p.body])]

Publisher_unpublish(p) ==
  IF p.err # NoError THEN p
  ELSE LET a == Publisher_clearRefreshTimer(p)
           b == [a EXCEPT !.body = Undefined, !.expires = 0]
       IN  IF b.etag # Undefined THEN Publisher_sendPublishRequest(b) ELSE b

\* dispose(): every path returns a promise that is already resolved
Publisher_dispose(p) ==
  IF p.err # NoError \/ p.disposed THEN p
  ELSE LET a == [p EXCEPT !.disposed = TRUE]
       IN  IF a.unpublishOnClose /\ a.state = "Published"
           THEN Publisher_unpublish(a)
           ELSE [Publisher_clearRefreshTimer(a) EXCEPT
                   !.body = Undefined, !.expires = 0, !.etag = Undefined]

\* a stateTransition that lets a Terminated publisher be Published again
Publisher_validTransition_reopens(from, to) ==
  CASE from = "Initial"     -> to \in {"Published", "Unpublished", "Terminated"}
    [] from = "Published"   -> to \in {"Unpublished", "Terminated"}
    [] from = "Unpublished" -> to \in {"Published", "Terminated"}
    [] from = "Terminated"  -> to = "Published"

\* the switch of stateTransition: the transitions it accepts
Publisher_validTransition(from, to) ==
  CASE from = "Initial"     -> to \in {"Published", "Unpublished", "Terminated"}
    [] from = "Published"   -> to \in {"Unpublished", "Terminated"}
    [] from = "Unpublished" -> to \in {"Published", "Terminated"}
    [] from = "Terminated"  -> FALSE

Publisher_stateTransition(p, newState) ==
  IF p.err # NoError THEN p
  ELSE LET a == [p EXCEPT !.trans = Append(@, [from |-> p.state, to |-> newState])]
       IN  IF ~Publisher_validTransition(p.state, newState)
           THEN [a EXCEPT !.err = "Invalid state transition"]
           ELSE LET b == [a EXCEPT !.state = newState]
                IN  IF newState = "Terminated" THEN Publisher_dispose(b) ELSE b

Publisher_publish(p, content) ==
  IF p.err # NoError THEN p
  ELSE LET a == Publisher_clearRefreshTimer(p)
           b == [a EXCEPT !.optBody = content, !.body = content]
           c == IF b.expires = 0
                THEN [b EXCEPT !.expires = b.optExpires, !.etag = Undefined]
                ELSE b
       IN  Publisher_sendPublishRequest(c)

\* a refresh at 90% of the expiry of the options, whatever was granted
RefreshDelay_ofOptions(p) == p.optExpires * RefreshFactor

\* the delay handed to setTimeout at publisher.ts:228, in milliseconds
RefreshDelay(p) == p.expires * RefreshFactor

Publisher_scheduleRefresh(p) ==
  LET id == FreshTimerId(p.timers)
  IN  [p EXCEPT !.timers = @ \cup {[id |-> id, delay |-> RefreshDelay(p)]},
                !.timer = id]

\* case 2xx
Publisher_receive2xx(p, response) ==
  LET a == IF hasHeader(response.etag)
           THEN [p EXCEPT !.etag = getHeader(response.etag)]
           ELSE p
      b == IF hasHeader(response.expires)
              /\ getHeader(response.expires) >= 0
              /\ getHeader(response.expires) <= a.expires
           THEN [a EXCEPT !.expires = getHeader(response.expires)]
           ELSE a
  IN  IF b.expires # 0
      THEN LET c == Publisher_scheduleRefresh(b)
           IN  IF c.state # "Published"
               THEN Publisher_stateTransition(c, "Published")
               ELSE c
      ELSE Publisher_stateTransition(b, "Unpublished")

\* the three branches that give up: expiry 0, Unpublished, then Terminated
Publisher_unrecoverable(p) ==
  Publisher_stateTransition(
    Publisher_stateTransition([p EXCEPT !.expires = 0], "Unpublished"),
    "Terminated")

\* a 412 that publishes again and keeps the entity tag
Publisher_receive412_keepsEtag(p) ==
  IF p.etag # Undefined /\ p.expires # 0
  THEN IF p.optBody = Undefined
       THEN [p EXCEPT !.err = "Body undefined."]
       ELSE Publisher_publish(p, p.optBody)
  ELSE Publisher_unrecoverable(p)

\* case 412
Publisher_receive412(p) ==
  IF p.etag # Undefined /\ p.expires # 0
  THEN LET a == [p EXCEPT !.etag = Undefined]
       IN  IF a.optBody = Undefined
           THEN [a EXCEPT !.err = "Body undefined."]
           ELSE Publisher_publish(a, a.optBody)
  ELSE Publisher_unrecoverable(p)

\* typeof minExpires === "number" || minExpires > this.pubRequestExpires:
\* Number(...) always has type "number"
MinExpiresAccepted(minExpires, expires) == TRUE \/ minExpires > expires

\* a 423 that publishes again with the expiry it had
Publisher_receive423_keepsExpires(p, response) ==
  IF p.expires # 0 /\ hasHeader(response.minExpires)
  THEN IF p.optBody = Undefined
       THEN [p EXCEPT !.err = "Body undefined."]
       ELSE Publisher_publish(p, p.optBody)
  ELSE Publisher_unrecoverable(p)

\* case 423
Publisher_receive423(p, response) ==
  IF p.expires # 0 /\ hasHeader(response.minExpires)
  THEN LET minExpires == getHeader(response.minExpires)
       IN  IF MinExpiresAccepted(minExpires, p.expires)
           THEN LET a == [p EXCEPT !.expires = minExpires]
                IN  IF a.optBody = Undefined
                    THEN [a EXCEPT !.err = "Body undefined."]
                    ELSE Publisher_publish(a, a.optBody)
           ELSE Publisher_unrecoverable(p)
  ELSE Publisher_unrecoverable(p)

\* the regular expressions of the switch, on the decimal digits of the code
Is1xx(statusCode) == statusCode >= 100 /\ statusCode <= 199
Is2xx(statusCode) == statusCode >= 200 /\ statusCode <= 299

\* "Do the cleanup"
Publisher_cleanup(p) ==
  IF p.err = NoError /\ p.expires = 0
  THEN [Publisher_clearRefreshTimer(p) EXCEPT !.body = Undefined, !.etag = Undefined]
  ELSE p

Publisher_receiveResponse(p, response) ==
  LET statusCode == response.statusCode
  IN  Publisher_cleanup(
        CASE Is1xx(statusCode) -> p
          [] Is2xx(statusCode) -> Publisher_receive2xx(p, response)
          [] statusCode = 412  -> Publisher_receive412(p)
          [] statusCode = 423  -> Publisher_receive423(p, response)
          [] OTHER             -> Publisher_unrecoverable(p))

\* a refreshRequest that keeps the body
Publisher_refreshRequest_keepsBody(p) ==
  LET a == Publisher_clearRefreshTimer(p)
  IN  IF a.etag = Undefined THEN [a EXCEPT !.err = "Etag undefined"]
      ELSE IF a.expires = 0 THEN [a EXCEPT !.err = "Expires zero"]
      ELSE Publisher_sendPublishRequest(a)

Publisher_refreshRequest(p) ==
  LET a == [Publisher_clearRefreshTimer(p) EXCEPT !.body = Undefined]
  IN  IF a.etag = Undefined THEN [a EXCEPT !.err = "Etag undefined"]
      ELSE IF a.expires = 0 THEN [a EXCEPT !.err = "Expires zero"]
      ELSE Publisher_sendPublishRequest(a)

(***************************************************************************)
(* Publisher: actions.                                                     *)
(***************************************************************************)
\* the fields a property compares the outcome of a call with
PublisherBefore(p) ==
  [state |-> p.state, disposed |-> p.disposed, expires |-> p.expires,
   etag |-> p.etag, optBody |-> p.optBody]

NoResponse == [statusCode |-> 0, etag |-> <<>>, expires |-> <<>>, minExpires |-> <<>>]

\* q: the object after the call op; consumed: the in-flight requests it answered
PublisherStep(op, response, q, consumed) ==
  /\ pubInflight + Len(q.sent) - consumed <= MaxInflight
  /\ pubState' = q.state
  /\ pubDisposed' = q.disposed
  /\ pubRequestBody' = q.body
  /\ pubRequestExpires' = q.expires
  /\ pubRequestEtag' = q.etag
  /\ publishRefreshTimer' = q.timer
  /\ optionsBody' = q.optBody
  /\ pubTimers' = q.timers
  /\ pubInflight' = pubInflight + Len(q.sent) - consumed
  /\ pubLast' = [op |-> op, before |-> PublisherBefore(PublisherFields),
                 response |-> response,
                 sent |-> q.sent, trans |-> q.trans, err |-> q.err]
  /\ UNCHANGED <<optionsExpires, unpublishOnClose>>
  /\ UNCHANGED subVars

Publish ==
  \E content \in Bodies :
    /\ PublisherStep("publish", NoResponse,
                     Publisher_publish(PublisherFields, content), 0)
    /\ UNCHANGED pubDisposePromise

Unpublish ==
  /\ PublisherStep("unpublish", NoResponse, Publisher_unpublish(PublisherFields), 0)
  /\ UNCHANGED pubDisposePromise

PublisherDispose ==
  /\ PublisherStep("dispose", NoResponse, Publisher_dispose(PublisherFields), 0)
  /\ pubDisposePromise' = "resolved"

\* the core hands a response to one of the callbacks of send()
ReceiveResponse ==
  \E response \in Responses :
    /\ pubInflight > 0
    /\ Cardinality(pubTimers) < MaxTimers
    /\ PublisherStep("receiveResponse", response,
                     Publisher_receiveResponse(PublisherFields, response),
                     IF Is1xx(response.statusCode) THEN 0 ELSE 1)
    /\ UNCHANGED pubDisposePromise

\* a pending refresh timer fires
RefreshTimerFires ==
  \E t \in pubTimers :
    /\ PublisherStep("refreshRequest", NoResponse,
                     Publisher_refreshRequest(
                       [PublisherFields EXCEPT !.timers = @ \ {t}]), 0)
    /\ UNCHANGED pubDisposePromise

PubInit ==
  /\ pubState = "Initial"
  /\ pubDisposed = FALSE
  /\ pubRequestBody = Undefined
  /\ optionsExpires \in ExpiresOptions
  /\ pubRequestExpires = optionsExpires
  /\ pubRequestEtag = Undefined
  /\ publishRefreshTimer = 0
  /\ optionsBody = Undefined
  /\ unpublishOnClose \in BOOLEAN
  /\ pubTimers = {}
  /\ pubInflight = 0
  /\ pubDisposePromise = "none"
  /\ pubLast = [op |-> "constructor",
                before |-> PublisherBefore(PublisherFields),
                response |-> NoResponse,
                sent |-> <<>>, trans |-> <<>>, err |-> NoError]

PubNext ==
  \/ Publish
  \/ Unpublish
  \/ PublisherDispose
  \/ ReceiveResponse
  \/ RefreshTimerFires

(***************************************************************************)
(* Subscriber: bounds and inputs.                                          *)
(***************************************************************************)
\* SubscriberRequest objects one Subscriber may build (the constructor's and
\* one for each re-subscription)
MaxCoord == 3

\* "retry-after" of Subscription-State; 0 stands for no such parameter
RetryAfterValues == {30}

ResubscribeReasons == {"deactivated", "timeout"}
RetryReasons == {"probation", "giveup"}
\* the reasons that end the subscription; "none" is no reason parameter
\* and "unknown" a reason the switch has no case for
FinalReasons == {"rejected", "noresource", "invariant", "unknown", "none"}

\* The parsed Subscription-State header of a NOTIFY.
NotifyHeaders ==
  [state : {"active", "pending"}, reason : {"none"}, retryAfter : {0}]
  \cup
  [state : {"terminated"}, reason : ResubscribeReasons \cup FinalReasons,
   retryAfter : {0}]
  \cup
  [state : {"terminated"}, reason : RetryReasons,
   retryAfter : {0} \cup RetryAfterValues]

NoHeader == [state |-> "none", reason |-> "none", retryAfter |-> 0]

\* The Subscriber object and what it refers to as a record, with an empty log.
SubscriberFields ==
  [state |-> subState, disposed |-> subDisposed, dialog |-> dialog,
   timer |-> retryAfterTimer, cur |-> subscriberRequest,
   requests |-> requests, dialogs |-> dialogs,
   timers |-> subTimers, timerCount |-> timerCount,
   refreshPending |-> refreshPending, promise |-> subDisposePromise,
   err |-> NoError, sent |-> <<>>, trans |-> <<>>]

(***************************************************************************)
(* SubscriberRequest: methods.  c is the index of the object in requests.  *)
(***************************************************************************)
\* the fields after the constructor; result is the promise of subscribe()
SubscriberRequest_new ==
  [subscribed |-> FALSE, request |-> "undefined", subscription |-> 0,
   result |-> "none"]

NoDialog == [state |-> "None", delegate |-> "none", autoRefresh |-> FALSE]

\* get state()
SubscriberRequest_state(s, c) ==
  IF s.requests[c].subscription # 0
  THEN s.dialogs[s.requests[c].subscription].state
  ELSE IF s.requests[c].subscribed THEN "NotifyWait" ELSE "Initial"

\* dispose(): stops the wait for the NOTIFY and releases the request
SubscriberRequest_dispose(s, c) ==
  IF s.requests[c].request # "undefined"
  THEN [s EXCEPT !.requests[c].request = "undefined"]
  ELSE s

\* a subscribe() that does not look at this.subscribed
SubscriberRequest_subscribe_unguarded(s, c) ==
  IF s.err # NoError THEN s
  ELSE [s EXCEPT !.requests[c].subscribed = TRUE,
                 !.requests[c].request = "live",
                 !.requests[c].result = "pending",
                 !.sent = Append(@, [kind |-> "SUBSCRIBE", to |-> c])]

\* subscribe(): the SUBSCRIBE goes to the core, the promise is pending; when
\* this.subscribed is set, the promise returned is rejected with the Error
SubscriberRequest_subscribe(s, c) ==
  IF s.err # NoError THEN s
  ELSE IF s.requests[c].subscribed
  THEN [s EXCEPT !.err = "Not in initial state."]
  ELSE [s EXCEPT !.requests[c].subscribed = TRUE,
                 !.requests[c].request = "live",
                 !.requests[c].result = "pending",
                 !.sent = Append(@, [kind |-> "SUBSCRIBE", to |-> c])]

(***************************************************************************)
(* Subscription, the base class of Subscriber.                             *)
(***************************************************************************)
Subscription_validTransition(from, to) ==
  CASE from = "Initial"    -> to \in {"NotifyWait", "Terminated"}
    [] from = "NotifyWait" -> to \in {"Subscribed", "Terminated"}
    [] from = "Subscribed" -> to \in {"Terminated"}
    [] from = "Terminated" -> FALSE

Subscription_dispose(s) == [s EXCEPT !.disposed = TRUE]

(***************************************************************************)
(* Subscriber: methods.                                                    *)
(***************************************************************************)
\* dialog.unsubscribe(): a SUBSCRIBE with Expires 0 within the dialog
Dialog_unsubscribe(s) ==
  [s EXCEPT !.sent = Append(@, [kind |-> "unsubscribe", to |-> s.dialog])]

\* dispose() up to super.dispose(); the callback of then() is Subscriber_disposeThen
Subscriber_dispose(s) ==
  IF s.err # NoError \/ s.disposed THEN s
  ELSE LET a == IF s.timer # 0
                THEN [s EXCEPT !.timers = clearTimeout(@, s.timer), !.timer = 0]
                ELSE s
       IN  Subscription_dispose(SubscriberRequest_dispose(a, a.cur))

\* a callback of then() that does not wait for the dialog
Subscriber_disposeThen_resolvesAtOnce(s) ==
  IF s.state # "Subscribed" THEN [s EXCEPT !.promise = "resolved"]
  ELSE IF s.dialog = 0 THEN [s EXCEPT !.promise = "rejected", !.err = "Dialog undefined."]
  ELSE IF s.dialogs[s.dialog].state \in {"Pending", "Active"}
  THEN [Dialog_unsubscribe(s) EXCEPT !.dialogs[s.dialog].delegate = "dispose",
                                     !.promise = "resolved"]
  ELSE [s EXCEPT !.promise = "resolved"]

\* the callback dispose() hands to then(): it sets the promise dispose() returned
Subscriber_disposeThen(s) ==
  IF s.state # "Subscribed" THEN [s EXCEPT !.promise = "resolved"]
  ELSE IF s.dialog = 0 THEN [s EXCEPT !.promise = "rejected", !.err = "Dialog undefined."]
  ELSE IF s.dialogs[s.dialog].state \in {"Pending", "Active"}
  THEN [Dialog_unsubscribe(s) EXCEPT !.dialogs[s.dialog].delegate = "dispose",
                                     !.promise = "pending"]
  ELSE [s EXCEPT !.promise = "resolved"]

\* Subscription.stateTransition; this.dispose() is Subscriber.dispose, and the
\* callback of its then() finds the state Terminated and returns
Subscriber_stateTransition(s, newState) ==
  IF s.err # NoError THEN s
  ELSE LET a == [s EXCEPT !.trans = Append(@, [from |-> s.state, to |-> newState])]
       IN  IF ~Subscription_validTransition(s.state, newState)
           THEN [a EXCEPT !.err = "Invalid state transition"]
           ELSE LET b == [a EXCEPT !.state = newState]
                IN  IF newState = "Terminated" THEN Subscriber_dispose(b) ELSE b

\* an unsubscribe() that does not look at this.disposed
Subscriber_unsubscribe_unguarded(s) ==
  IF s.err # NoError THEN s
  ELSE LET a == IF SubscriberRequest_state(s, s.cur) \in {"Pending", "Active"}
                   /\ s.dialog # 0
                THEN Dialog_unsubscribe(s)
                ELSE s
       IN  Subscriber_stateTransition(a, "Terminated")

Subscriber_unsubscribe(s) ==
  IF s.err # NoError \/ s.disposed THEN s
  ELSE LET a == IF SubscriberRequest_state(s, s.cur) \in {"Pending", "Active"}
                   /\ s.dialog # 0
                THEN Dialog_unsubscribe(s)
                ELSE s
       IN  Subscriber_stateTransition(a, "Terminated")

\* a subscribe() that refreshes a Pending dialog as it does an Active one
Subscriber_subscribe_refreshesPending(s) ==
  IF s.err # NoError THEN s
  ELSE CASE SubscriberRequest_state(s, s.cur) = "Initial" ->
              SubscriberRequest_subscribe(
                IF s.state = "Initial"
                THEN Subscriber_stateTransition(s, "NotifyWait")
                ELSE s,
                s.cur)
         [] SubscriberRequest_state(s, s.cur) \in {"Pending", "Active"} ->
              IF s.dialog # 0
              THEN [s EXCEPT !.sent = Append(@, [kind |-> "refresh", to |-> s.dialog]),
                             !.refreshPending = TRUE]
              ELSE s
         [] OTHER -> s

\* a subscribe() that moves to NotifyWait whatever the state is
Subscriber_subscribe_alwaysWaits(s) ==
  IF s.err # NoError THEN s
  ELSE CASE SubscriberRequest_state(s, s.cur) = "Initial" ->
              SubscriberRequest_subscribe(
                Subscriber_stateTransition(s, "NotifyWait"), s.cur)
         [] SubscriberRequest_state(s, s.cur) = "Active" ->
              IF s.dialog # 0
              THEN [s EXCEPT !.sent = Append(@, [kind |-> "refresh", to |-> s.dialog]),
                             !.refreshPending = TRUE]
              ELSE s
         [] OTHER -> s

\* subscribe(); the callback of then() is Subscriber_onResult
Subscriber_subscribe(s) ==
  IF s.err # NoError THEN s
  ELSE CASE SubscriberRequest_state(s, s.cur) = "Initial" ->
              SubscriberRequest_subscribe(
                IF s.state = "Initial"
                THEN Subscriber_stateTransition(s, "NotifyWait")
                ELSE s,
                s.cur)
         [] SubscriberRequest_state(s, s.cur) = "Active" ->
              IF s.dialog # 0
              THEN [s EXCEPT !.sent = Append(@, [kind |-> "refresh", to |-> s.dialog]),
                             !.refreshPending = TRUE]
              ELSE s
         [] OTHER -> s

\* an initSubscriberRequest that keeps the SubscriberRequest it has
Subscriber_initSubscriberRequest_keeps(s) == s

Subscriber_initSubscriberRequest(s) ==
  [s EXCEPT !.requests = Append(@, SubscriberRequest_new),
            !.dialogs = Append(@, NoDialog),
            !.cur = Len(s.requests) + 1]

\* the delay handed to setTimeout at subscriber.ts:343, in milliseconds:
\* the value of the retry-after parameter as it is
RetryDelay(retryAfter) == retryAfter

\* retryAfterTimer = setTimeout(() => this.subscribe(), params["retry-after"])
Subscriber_setRetryTimer(s, retryAfter) ==
  [s EXCEPT !.timers = @ \cup {[id |-> s.timerCount + 1,
                                retryAfter |-> retryAfter,
                                delay |-> RetryDelay(retryAfter),
                                elapsed |-> 0]},
            !.timer = s.timerCount + 1,
            !.timerCount = @ + 1]

\* an onNotify that subscribes again whatever the reason is
Subscriber_onNotify_alwaysRetries(s, header) ==
  IF s.err # NoError \/ s.disposed THEN s
  ELSE LET a == IF s.state # "Subscribed"
                THEN Subscriber_stateTransition(s, "Subscribed")
                ELSE s
       IN  IF a.err # NoError \/ header.state # "terminated" THEN a
           ELSE Subscriber_subscribe(Subscriber_initSubscriberRequest(a))

\* onNotify(request), with the parsed Subscription-State header of the request
Subscriber_onNotify(s, header) ==
  IF s.err # NoError \/ s.disposed THEN s
  ELSE LET a == IF s.state # "Subscribed"
                THEN Subscriber_stateTransition(s, "Subscribed")
                ELSE s
       IN  IF a.err # NoError \/ header.state # "terminated" THEN a
           ELSE IF header.reason \in ResubscribeReasons
           THEN Subscriber_subscribe(Subscriber_initSubscriberRequest(a))
           ELSE IF header.reason \in RetryReasons
           THEN IF header.retryAfter # 0
                THEN Subscriber_setRetryTimer(Subscriber_initSubscriberRequest(a),
                                              header.retryAfter)
                ELSE Subscriber_subscribe(Subscriber_initSubscriberRequest(a))
           ELSE Subscriber_unsubscribe(a)

\* a callback of then() that ignores a failure
Subscriber_onResult_ignoresFailure(s, c, header) ==
  IF s.requests[c].result = "success"
  THEN Subscriber_onNotify(
         IF s.requests[c].subscription # 0
         THEN [s EXCEPT !.dialog = s.requests[c].subscription,
                        !.dialogs[s.requests[c].subscription].delegate = "subscriber"]
         ELSE s,
         header)
  ELSE s

\* a callback of then() that does nothing with the result
Subscriber_onResult_dropsResult(s, c, header) == s

\* the callback subscribe() hands to then() on the promise of requests[c]
Subscriber_onResult(s, c, header) ==
  IF s.requests[c].result = "success"
  THEN Subscriber_onNotify(
         IF s.requests[c].subscription # 0
         THEN [s EXCEPT !.dialog = s.requests[c].subscription,
                        !.dialogs[s.requests[c].subscription].delegate = "subscriber"]
         ELSE s,
         header)
  ELSE Subscriber_unsubscribe(s)

\* the onNotify callback of requests[c]: subscription is the dialog the
\* NOTIFY came with, 0 when it came with none
SubscriberRequest_onNotify(s, c, subscription) ==
  LET a == [s EXCEPT !.requests[c].subscription = subscription]
      b == IF subscription # 0
           THEN [a EXCEPT !.dialogs[subscription].autoRefresh = TRUE]
           ELSE a
  IN  IF b.requests[c].result = "pending"
      THEN [b EXCEPT !.requests[c].result = "success"]
      ELSE b

\* the onNotifyTimeout, onRedirect and onReject callbacks of requests[c]
SubscriberRequest_onFailure(s, c) ==
  IF s.requests[c].result = "pending"
  THEN [s EXCEPT !.requests[c].result = "failure"]
  ELSE s

(***************************************************************************)
(* Subscriber: actions.                                                    *)
(***************************************************************************)
NoTimer == [id |-> 0, retryAfter |-> 0, delay |-> 0, elapsed |-> 0]

SubscriberBefore ==
  [state |-> subState, disposed |-> subDisposed, built |-> Len(requests),
   timers |-> timerCount, ended |-> endedByNotify]

\* q: the objects after the call op.  header: the Subscription-State of the
\* NOTIFY the call is about; t: the timer that fired; delivered: onNotify ran
\* on a Subscriber that was not disposed (the header is kept only then);
\* settled: how the call settled the promise of a SubscriberRequest.
SubscriberStep(op, header, t, delivered, settled, q) ==
  /\ Len(q.requests) <= MaxCoord
  /\ subState' = q.state
  /\ subDisposed' = q.disposed
  /\ dialog' = q.dialog
  /\ retryAfterTimer' = q.timer
  /\ subscriberRequest' = q.cur
  /\ requests' = q.requests
  /\ dialogs' = q.dialogs
  /\ subTimers' = q.timers
  /\ timerCount' = q.timerCount
  /\ refreshPending' = q.refreshPending
  /\ subDisposePromise' = q.promise
  /\ endedByNotify' = (endedByNotify
                         \/ (delivered /\ header.state = "terminated"
                                       /\ header.reason \in FinalReasons))
  /\ subLast' = [op |-> op, header |-> IF delivered THEN header ELSE NoHeader,
                 timer |-> t, delivered |-> delivered, settled |-> settled,
                 before |-> SubscriberBefore,
                 sent |-> q.sent, trans |-> q.trans, err |-> q.err]
  /\ UNCHANGED pubVars

\* the application calls subscribe()
Subscribe ==
  /\ SubscriberStep("subscribe", NoHeader, NoTimer, FALSE, "none",
                    Subscriber_subscribe(SubscriberFields))
  /\ UNCHANGED core

\* the application calls unsubscribe()
Unsubscribe ==
  /\ SubscriberStep("unsubscribe", NoHeader, NoTimer, FALSE, "none",
                    Subscriber_unsubscribe(SubscriberFields))
  /\ UNCHANGED core

\* the application calls dispose(), and the callback of then() runs
SubscriberDispose ==
  /\ SubscriberStep("dispose", NoHeader, NoTimer, FALSE, "none",
                    IF subDisposed THEN SubscriberFields
                    ELSE Subscriber_disposeThen(Subscriber_dispose(SubscriberFields)))
  /\ UNCHANGED core

\* The core hands the first NOTIFY of requests[c] to its onNotify callback.
\* It has made a dialog for the subscription unless the NOTIFY says terminated
\* (RFC 6665 4.4.1).  If this settles the promise, the callback of then() runs.
CoreNotify ==
  \E c \in 1..Len(requests), header \in NotifyHeaders :
    /\ requests[c].request = "live"
    /\ ~core[c].notified
    /\ LET s == SubscriberFields
           subscription == IF header.state = "terminated" THEN 0 ELSE c
           a == IF subscription # 0
                THEN [s EXCEPT !.dialogs[c].state =
                                 IF header.state = "active" THEN "Active" ELSE "Pending"]
                ELSE s
           b == SubscriberRequest_onNotify(a, c, subscription)
           settles == requests[c].result = "pending"
       IN  SubscriberStep("notify", header, NoTimer,
                          settles /\ ~subDisposed,
                          IF settles THEN "success" ELSE "none",
                          IF settles THEN Subscriber_onResult(b, c, header) ELSE b)
    /\ core' = [core EXCEPT ![c].notified = TRUE]

\* Timer N of requests[c] fires before any NOTIFY: onNotifyTimeout
CoreNotifyTimeout ==
  \E c \in 1..Len(requests) :
    /\ requests[c].request = "live"
    /\ ~core[c].notified
    /\ LET b == SubscriberRequest_onFailure(SubscriberFields, c)
       IN  SubscriberStep("notifyTimeout", NoHeader, NoTimer, FALSE,
                          IF requests[c].result = "pending" THEN "failure" ELSE "none",
                          IF requests[c].result = "pending"
                          THEN Subscriber_onResult(b, c, NoHeader) ELSE b)
    /\ UNCHANGED core

\* the final response to the SUBSCRIBE of requests[c]: onAccept, onRedirect, onReject
CoreResponse ==
  \E c \in 1..Len(requests), kind \in {"accept", "redirect", "reject"} :
    /\ requests[c].request = "live"
    /\ LET b == IF kind = "accept" THEN SubscriberFields
                ELSE SubscriberRequest_onFailure(SubscriberFields, c)
       IN  SubscriberStep(kind, NoHeader, NoTimer, FALSE,
                          IF kind # "accept" /\ requests[c].result = "pending"
                          THEN "failure" ELSE "none",
                          IF kind # "accept" /\ requests[c].result = "pending"
                          THEN Subscriber_onResult(b, c, NoHeader) ELSE b)
    /\ UNCHANGED core

\* A later NOTIFY arrives in dialog d, whose delegate is the Subscriber's.
\* The dialog takes the state the NOTIFY says before it calls the delegate:
\* the subscription ends with a NOTIFY that says terminated (RFC 6665 4.4.1),
\* and then the dialog may call onTerminated (announced) before onNotify.
DialogNotify ==
  \E d \in 1..Len(dialogs), header \in NotifyHeaders :
    /\ dialogs[d].state \in {"Pending", "Active"}
    /\ dialogs[d].delegate = "subscriber"
    /\ \E announced \in IF header.state = "terminated" THEN BOOLEAN ELSE {FALSE} :
         LET s == SubscriberFields
             a == [s EXCEPT !.dialogs[d].state =
                              CASE header.state = "terminated" -> "Terminated"
                                [] header.state = "active" -> "Active"
                                [] OTHER -> @]
             b == IF announced /\ a.state # "Terminated"
                  THEN Subscriber_stateTransition(a, "Terminated")
                  ELSE a
         IN  SubscriberStep("dialogNotify", header, NoTimer, ~b.disposed, "none",
                            Subscriber_onNotify(b, header))
    /\ UNCHANGED core

\* dialog d terminates and calls the onTerminated of its delegate
DialogTerminated ==
  \E d \in 1..Len(dialogs) :
    /\ dialogs[d].state \in {"Pending", "Active"}
    /\ LET s == [SubscriberFields EXCEPT !.dialogs[d].state = "Terminated"]
       IN  SubscriberStep("dialogTerminated", NoHeader, NoTimer, FALSE, "none",
                          CASE dialogs[d].delegate = "subscriber" ->
                                 IF s.state # "Terminated"
                                 THEN Subscriber_stateTransition(s, "Terminated")
                                 ELSE s
                            [] dialogs[d].delegate = "dispose" ->
                                 [s EXCEPT !.promise = "resolved"]
                            [] OTHER -> s)
    /\ UNCHANGED core

\* the response to a re-SUBSCRIBE of dialog.refresh(): onAccept is
\* onAccepted, which does nothing; onRedirect and onReject are unsubscribe()
RefreshResponse ==
  \E kind \in {"refreshAccept", "refreshRedirect", "refreshReject"} :
    /\ refreshPending
    /\ \E more \in BOOLEAN :
         LET s == [SubscriberFields EXCEPT !.refreshPending = more]
         IN  SubscriberStep(kind, NoHeader, NoTimer, FALSE, "none",
                            IF kind = "refreshAccept" THEN s
                            ELSE Subscriber_unsubscribe(s))
    /\ UNCHANGED core

\* no pending timer is due, and time passes until one is
Tick ==
  /\ subTimers # {}
  /\ \A t \in subTimers : t.elapsed < t.delay
  /\ \E d \in {t.delay - t.elapsed : t \in subTimers} :
       /\ \A t \in subTimers : t.elapsed + d <= t.delay
       /\ subTimers' = {[t EXCEPT !.elapsed = @ + d] : t \in subTimers}
  /\ subLast' = [op |-> "tick", header |-> NoHeader, timer |-> NoTimer,
                 delivered |-> FALSE, settled |-> "none", before |-> SubscriberBefore,
                 sent |-> <<>>, trans |-> <<>>, err |-> NoError]
  /\ UNCHANGED <<subState, subDisposed, dialog, retryAfterTimer, subscriberRequest,
                 requests, dialogs, core, timerCount, refreshPending,
                 subDisposePromise, endedByNotify>>
  /\ UNCHANGED pubVars

\* a retry-after timer is due and runs its callback, this.subscribe()
RetryTimerFires ==
  \E t \in subTimers :
    /\ t.elapsed >= t.delay
    /\ SubscriberStep("retryTimer", NoHeader, t, FALSE, "none",
                      Subscriber_subscribe(
                        [SubscriberFields EXCEPT !.timers = @ \ {t}]))
    /\ UNCHANGED core

SubInit ==
  /\ subState = "Initial"
  /\ subDisposed = FALSE
  /\ dialog = 0
  /\ retryAfterTimer = 0
  /\ subscriberRequest = 1
  /\ requests = <<SubscriberRequest_new>>
  /\ dialogs = <<NoDialog>>
  /\ core = [c \in 1..(MaxCoord + 1) |-> [notified |-> FALSE]]
  /\ subTimers = {}
  /\ timerCount = 0
  /\ refreshPending = FALSE
  /\ subDisposePromise = "none"
  /\ endedByNotify = FALSE
  /\ subLast = [op |-> "constructor", header |-> NoHeader,
                timer |-> NoTimer, delivered |-> FALSE, settled |-> "none",
                before |-> [state |-> "Initial", disposed |-> FALSE, built |-> 1,
                            timers |-> 0, ended |-> FALSE],
                sent |-> <<>>, trans |-> <<>>, err |-> NoError]

SubNext ==
  \/ Subscribe
  \/ Unsubscribe
  \/ SubscriberDispose
  \/ CoreNotify
  \/ CoreNotifyTimeout
  \/ CoreResponse
  \/ DialogNotify
  \/ DialogTerminated
  \/ RefreshResponse
  \/ Tick
  \/ RetryTimerFires

Init == PubInit /\ SubInit

\* the Publisher, with the Subscriber as constructed
PubSpec == Init /\ [][PubNext]_vars

\* the Subscriber, with the Publisher as constructed
SubSpecInit == Init /\ unpublishOnClose = TRUE

SubSpec == SubSpecInit /\ [][SubNext]_vars

\* some caller calls subscribe() on requests[c] again, after the call that
\* returned its promise
SubscribeAgain ==
  \E c \in 1..Len(requests) :
    /\ requests[c].result # "none"
    /\ SubscriberStep("subscribeAgain", NoHeader, NoTimer, FALSE, "none",
                      SubscriberRequest_subscribe(SubscriberFields, c))
    /\ UNCHANGED core

ReqNext ==
  \/ SubNext
  \/ SubscribeAgain

\* the Subscriber, and callers of SubscriberRequest.subscribe() besides it
ReqSpec == SubSpecInit /\ [][ReqNext]_vars

\* the core calls one of the callbacks that settle a subscription attempt:
\* onNotify, onNotifyTimeout, onRedirect or onReject
CoreDecides ==
  \/ CoreNotify
  \/ CoreNotifyTimeout
  \/ CoreResponse /\ subLast'.op \in {"redirect", "reject"}

\* The Subscriber on a core that answers: while a SUBSCRIBE is out and no
\* NOTIFY has come, timer N of the core is running (RFC 6665 4.1.2.4), so the
\* core does call onNotify, onNotifyTimeout, onRedirect or onReject.
LiveSpec == SubSpecInit /\ [][SubNext]_vars /\ WF_vars(CoreDecides)

(***************************************************************************)
(* Properties of the Subscriber.                                           *)
(***************************************************************************)
\* the requests of one kind a call handed to the core or to the dialog
SentOfKind(sent, kind) == SelectSeq(sent, LAMBDA m : m.kind = kind)

\* Subscriber.onNotify ran, on a Subscriber that was not disposed, for a
\* NOTIFY that says terminated with one of the reasons
TerminatedNotify(reasons) ==
  /\ subLast.delivered
  /\ subLast.header.state = "terminated"
  /\ subLast.header.reason \in reasons

\* C1: a NOTIFY that says terminated with reason deactivated or timeout,
\* delivered to a Subscriber that is not disposed, builds a new
\* SubscriberRequest and sends exactly one SUBSCRIBE through it, and the
\* Subscriber stays Subscribed and is not disposed.
C1_ResubscribeOnDeactivated ==
  TerminatedNotify(ResubscribeReasons) =>
    /\ subLast.err = NoError
    /\ Len(requests) = subLast.before.built + 1
    /\ subscriberRequest = Len(requests)
    /\ subLast.sent = <<[kind |-> "SUBSCRIBE", to |-> subscriberRequest]>>
    /\ requests[subscriberRequest].subscribed
    /\ requests[subscriberRequest].result = "pending"
    /\ subState = "Subscribed"
    /\ ~subDisposed

C1_Witness ==
  /\ TerminatedNotify({"deactivated"})
  /\ subLast.op = "dialogNotify"
  /\ Len(subLast.sent) = 1
  /\ subscriberRequest = 2

\* C2: a NOTIFY that says terminated with reason giveup or probation and
\* retry-after=N sets exactly one timer and sends nothing; the SUBSCRIBE of
\* that timer is sent no sooner than N seconds (1000 N ms) after the NOTIFY;
\* without retry-after the SUBSCRIBE is sent at once.
C2_RetryAfterSeconds ==
  /\ (TerminatedNotify(RetryReasons) /\ subLast.header.retryAfter # 0) =>
       /\ subLast.sent = <<>>
       /\ timerCount = subLast.before.timers + 1
       /\ \E t \in subTimers : /\ t.id = retryAfterTimer
                               /\ t.retryAfter = subLast.header.retryAfter
                               /\ t.elapsed = 0
  /\ (TerminatedNotify(RetryReasons) /\ subLast.header.retryAfter = 0) =>
       /\ subLast.sent = <<[kind |-> "SUBSCRIBE", to |-> subscriberRequest]>>
       /\ timerCount = subLast.before.timers
  /\ (subLast.op = "retryTimer" /\ subLast.sent # <<>>) =>
       subLast.timer.elapsed >= 1000 * subLast.timer.retryAfter

\* C3: a NOTIFY that says terminated with reason rejected, noresource or
\* invariant, with no reason or with an unknown one makes the state
\* Terminated, and after it the Subscriber sends no SUBSCRIBE, neither an
\* initial one nor one that refreshes the dialog.
C3_FinalReasonEndsSubscription ==
  /\ TerminatedNotify(FinalReasons) => subState = "Terminated"
  /\ subLast.before.ended =>
       /\ SentOfKind(subLast.sent, "SUBSCRIBE") = <<>>
       /\ SentOfKind(subLast.sent, "refresh") = <<>>

C3_Witness ==
  /\ subLast.op = "subscribe"
  /\ subLast.before.ended
  /\ subLast.before.state = "Terminated"
  /\ subLast.sent = <<>>
  /\ subState = "Terminated"

\* C10: when the promise of a SubscriberRequest settles with a failure
\* (onRedirect, onReject, or onNotifyTimeout before any NOTIFY) and the
\* Subscriber is not disposed, unsubscribe() runs and the state becomes
\* Terminated, in the same way for the three callbacks.
C10_FailureTerminates ==
  (subLast.settled = "failure" /\ ~subLast.before.disposed) =>
    /\ subLast.op \in {"notifyTimeout", "redirect", "reject"}
    /\ subLast.err = NoError
    /\ subLast.trans = <<[from |-> subLast.before.state, to |-> "Terminated"]>>
    /\ subState = "Terminated"
    /\ subDisposed

C10_Witness ==
  /\ subLast.op = "notifyTimeout"
  /\ subLast.settled = "failure"
  /\ ~subLast.before.disposed
  /\ subState = "Terminated"

(***************************************************************************)
(* Properties of the Publisher.                                            *)
(***************************************************************************)
Received(statusCode) ==
  /\ pubLast.op = "receiveResponse"
  /\ pubLast.response.statusCode = statusCode

\* C4: a 412 received with an entity tag held and a nonzero expiry sends
\* exactly one PUBLISH, with no SIP-If-Match, the expiry as it was and the
\* body last published, and leaves the state as it was.
C4_Resend412 ==
  (Received(412) /\ pubLast.before.etag # Undefined /\ pubLast.before.expires # 0) =>
    /\ pubLast.err = NoError
    /\ pubLast.before.optBody \in Bodies
    /\ pubLast.sent = <<[expires |-> pubLast.before.expires,
                         ifMatch |-> Undefined,
                         body |-> pubLast.before.optBody]>>
    /\ pubState = pubLast.before.state
    /\ pubLast.trans = <<>>

C4_Witness ==
  /\ Received(412)
  /\ pubLast.before.etag # Undefined
  /\ pubLast.before.expires # 0
  /\ pubLast.before.state = "Published"
  /\ Len(pubLast.sent) = 1

\* a 423 with Min-Expires, received with a nonzero expiry
Received423(minExpires) ==
  /\ Received(423)
  /\ pubLast.response.minExpires = <<minExpires>>
  /\ pubLast.before.expires # 0

\* C5: a 423 whose Min-Expires M is greater than the expiry requested
\* (nonzero) sends exactly one PUBLISH, with Expires M and the body last
\* published.
C5_Resend423 ==
  \A m \in ServerMinExpires :
    (Received423(m) /\ m > pubLast.before.expires) =>
      /\ pubLast.err = NoError
      /\ pubLast.before.optBody \in Bodies
      /\ pubLast.sent = <<[expires |-> m,
                           ifMatch |-> pubLast.before.etag,
                           body |-> pubLast.before.optBody]>>
      /\ pubRequestExpires = m

C5_Witness ==
  /\ Received423(7200)
  /\ pubLast.before.expires = DefaultExpires
  /\ Len(pubLast.sent) = 1
  /\ pubLast.sent[1].expires = 7200

\* C6: a 423 whose Min-Expires is less than or equal to the expiry
\* requested sends no PUBLISH, makes the expiry 0 and the state Terminated.
C6_Unrecoverable423 ==
  \A m \in ServerMinExpires :
    (Received423(m) /\ m <= pubLast.before.expires) =>
      /\ pubLast.sent = <<>>
      /\ pubRequestExpires = 0
      /\ pubState = "Terminated"

\* the Expires of the response that receiveResponse accepts: present,
\* not negative and not above the expiry requested
AcceptedExpires ==
  /\ hasHeader(pubLast.response.expires)
  /\ getHeader(pubLast.response.expires) >= 0
  /\ getHeader(pubLast.response.expires) <= pubLast.before.expires

\* C7: after a 2xx the expiry is the Expires of the response when that is
\* present, not negative and not above the expiry requested, and the expiry
\* requested otherwise; when it is not 0, the refresh timer is set to 900 ms
\* for each second of that expiry (1620 s for 1800).
C7_GrantedExpiry ==
  Received(200) =>
    /\ pubRequestExpires = IF AcceptedExpires
                           THEN getHeader(pubLast.response.expires)
                           ELSE pubLast.before.expires
    /\ pubRequestExpires # 0 =>
         \E t \in pubTimers : /\ t.id = publishRefreshTimer
                              /\ 10 * t.delay = 9 * 1000 * pubRequestExpires

C7_Witness ==
  /\ Received(200)
  /\ pubLast.before.expires = 3600
  /\ pubRequestExpires = 1800
  /\ \E t \in pubTimers : t.id = publishRefreshTimer /\ t.delay = 1620 * 1000

\* C8: dispose() of a Published publisher with unpublishOnClose sends the
\* PUBLISH that removes the publication (the entity tag held, Expires 0, no
\* body), and its promise is resolved only when the publisher is no longer
\* Published.
C8_DisposeWaitsForUnpublish ==
  (pubLast.op = "dispose" /\ pubLast.before.state = "Published"
     /\ ~pubLast.before.disposed /\ unpublishOnClose) =>
    /\ pubLast.before.etag # Undefined =>
         pubLast.sent = <<[expires |-> 0, ifMatch |-> pubLast.before.etag,
                           body |-> Undefined]>>
    /\ pubDisposePromise = "resolved" => pubState # "Published"

\* C9: a Terminated publisher stays Terminated, and every transition
\* attempted from Terminated throws and is the last thing the call does.
C9_TerminatedIsFinal ==
  /\ pubLast.before.state = "Terminated" => pubState = "Terminated"
  /\ \A i \in DOMAIN pubLast.trans :
       pubLast.trans[i].from = "Terminated" =>
         /\ pubLast.err = "Invalid state transition"
         /\ i = Len(pubLast.trans)
         /\ pubState = "Terminated"

C9_Witness ==
  /\ pubLast.before.state = "Terminated"
  /\ pubLast.trans = <<[from |-> "Terminated", to |-> "Published"]>>
  /\ pubLast.err = "Invalid state transition"
  /\ pubState = "Terminated"

\* C11: dispose() of a Subscribed Subscriber whose dialog is Pending or
\* Active sends exactly one unsubscribe in the dialog and leaves its promise
\* pending; the promise is resolved only when that dialog has reported that
\* it terminated; in every other state dispose() sends no unsubscribe and
\* its promise is resolved.
C11_DisposeWaitsForDialog ==
  /\ (subLast.op = "dispose" /\ ~subLast.before.disposed) =>
       /\ subState = subLast.before.state
       /\ IF subState = "Subscribed" /\ dialog # 0
             /\ dialogs[dialog].state \in {"Pending", "Active"}
          THEN /\ subLast.sent = <<[kind |-> "unsubscribe", to |-> dialog]>>
               /\ subDisposePromise = "pending"
               /\ dialogs[dialog].delegate = "dispose"
          ELSE /\ subLast.sent = <<>>
               /\ subState # "Subscribed" => subDisposePromise = "resolved"
  /\ \A d \in 1..Len(dialogs) :
       dialogs[d].delegate = "dispose" =>
         /\ subDisposePromise \in {"pending", "resolved"}
         /\ subDisposePromise = "resolved" => dialogs[d].state = "Terminated"

C11_Witness ==
  /\ subLast.op = "dialogTerminated"
  /\ subDisposePromise = "resolved"
  /\ \E d \in 1..Len(dialogs) :
       dialogs[d].delegate = "dispose" /\ dialogs[d].state = "Terminated"

\* a final response that is neither 2xx, 412 nor 423
ReceivedOther ==
  /\ pubLast.op = "receiveResponse"
  /\ ~Is1xx(pubLast.response.statusCode)
  /\ ~Is2xx(pubLast.response.statusCode)
  /\ pubLast.response.statusCode \notin {412, 423}

\* C12: a final response that is neither 2xx, 412 nor 423 makes the expiry 0
\* and the state Terminated, by way of Unpublished, whatever the state was
\* when it arrived.
C12_OtherStatusTerminates ==
  ReceivedOther =>
    /\ pubRequestExpires = 0
    /\ pubState = "Terminated"
    /\ pubLast.before.state # "Terminated" =>
         /\ pubLast.err = NoError
         /\ Len(pubLast.trans) = 2
         /\ pubLast.trans[2] = [from |-> "Unpublished", to |-> "Terminated"]

\* C13: a second call of subscribe() on a SubscriberRequest fails with the
\* Error "Not in initial state", sends no SUBSCRIBE and changes neither the
\* SubscriberRequest nor anything else.
C13_SecondSubscribeFails ==
  [][subLast'.op = "subscribeAgain" =>
       /\ subLast'.err = "Not in initial state."
       /\ subLast'.sent = <<>>
       /\ requests' = requests
       /\ dialogs' = dialogs
       /\ UNCHANGED <<subState, subDisposed, dialog, retryAfterTimer,
                      subscriberRequest, core, subTimers, timerCount>>]_vars

C13_Witness ==
  /\ subLast.op = "subscribeAgain"
  /\ subLast.err = "Not in initial state."
  /\ requests[1].result = "success"

\* C14: unsubscribe() on a disposed Subscriber sends nothing, attempts no
\* state transition, throws nothing and changes no field, whatever the state,
\* the SubscriberRequest and the dialog are.
C14_UnsubscribeDisposedNoOp ==
  [][(subLast'.op = "unsubscribe" /\ subDisposed) =>
       /\ subLast'.sent = <<>>
       /\ subLast'.trans = <<>>
       /\ subLast'.err = NoError
       /\ UNCHANGED <<subState, subDisposed, dialog, retryAfterTimer,
                      subscriberRequest, requests, dialogs, core, subTimers,
                      timerCount, refreshPending, subDisposePromise>>]_vars

C14_Witness ==
  /\ subLast.op = "unsubscribe"
  /\ subLast.before.disposed
  /\ subLast.sent = <<>>
  /\ subState = "Subscribed"
  /\ dialog # 0
  /\ dialogs[dialog].state = "Active"

\* the order of the states of a Subscription
StateRank(state) ==
  CASE state = "Initial"    -> 0
    [] state = "NotifyWait" -> 1
    [] state = "Subscribed" -> 2
    [] state = "Terminated" -> 3

\* C15: the state of the Subscriber only moves forward in the order Initial,
\* NotifyWait, Subscribed, Terminated, also while it subscribes again after
\* a NOTIFY that says terminated; every transition the Subscriber attempts
\* is a forward one, and Terminated is never left.
C15_StateNeverRegresses ==
  [][/\ StateRank(subState') >= StateRank(subState)
     /\ \A i \in DOMAIN subLast'.trans :
          StateRank(subLast'.trans[i].from) < StateRank(subLast'.trans[i].to)]_vars

C15_Witness ==
  /\ subLast.op = "retryTimer"
  /\ subLast.sent # <<>>
  /\ subLast.trans = <<>>
  /\ subState = "Subscribed"

\* the promise of requests[c] is settled
Settled(c) == requests[c].result \in {"success", "failure"}

\* C16: of the callbacks onNotify, onNotifyTimeout, onRedirect and onReject
\* of a SubscriberRequest, the first one settles its promise; the result
\* never changes after that, and a callback that comes later changes neither
\* the dialog the SubscriberRequest holds nor the state it derives.
C16_FirstCallbackDecides ==
  [][\A c \in 1..Len(requests) :
       /\ (requests[c].result = "pending" /\ requests'[c].result # "pending") =>
            /\ subLast'.op \in {"notify", "notifyTimeout", "redirect", "reject"}
            /\ requests'[c].result =
                 IF subLast'.op = "notify" THEN "success" ELSE "failure"
       /\ Settled(c) => requests'[c].result = requests[c].result
       /\ (Settled(c)
             /\ subLast'.op \in {"notify", "notifyTimeout", "redirect", "reject"}) =>
            /\ requests'[c].subscription = requests[c].subscription
            /\ requests'[c].subscribed = requests[c].subscribed
            /\ dialogs'[c].state = dialogs[c].state]_vars

\* the state the current SubscriberRequest derives
DerivedState == SubscriberRequest_state(SubscriberFields, subscriberRequest)

\* C17: subscribe() while the SubscriberRequest derives NotifyWait or Pending
\* sends nothing, attempts no transition and changes no field; and a
\* SUBSCRIBE is only ever sent through a SubscriberRequest that has sent
\* none, so that each sends at most one.
C17_SubscribeInFlightNoOp ==
  [][/\ (subLast'.op = "subscribe" /\ DerivedState \in {"NotifyWait", "Pending"}) =>
          /\ subLast'.sent = <<>>
          /\ subLast'.trans = <<>>
          /\ subLast'.err = NoError
          /\ UNCHANGED <<subState, subDisposed, dialog, retryAfterTimer,
                         subscriberRequest, requests, dialogs, core, subTimers,
                         timerCount, refreshPending, subDisposePromise>>
     /\ \A i \in DOMAIN subLast'.sent :
          subLast'.sent[i].kind = "SUBSCRIBE" =>
            /\ subLast'.sent[i].to > Len(requests)
                 \/ ~requests[subLast'.sent[i].to].subscribed
            /\ \A j \in DOMAIN subLast'.sent :
                 subLast'.sent[j] = subLast'.sent[i] => j = i]_vars

C17_Witness ==
  /\ subLast.op = "subscribe"
  /\ subLast.sent = <<>>
  /\ ~subDisposed
  /\ DerivedState = "Pending"

\* C18: once the Subscriber is disposed, by dispose() or on the way to
\* Terminated, no retry-after timer runs its callback, so that none sends a
\* SUBSCRIBE, however many NOTIFYs with retry-after came before.
C18_DisposeCancelsRetryTimers ==
  subLast.op = "retryTimer" => ~subLast.before.disposed

\* C19: after receiveResponse has handled a response, whatever its status
\* and whatever the state was, an expiry of 0 means that no refresh timer is
\* pending and that the body and the entity tag kept are cleared.
C19_CleanupWhenExpiresZero ==
  (pubLast.op = "receiveResponse" /\ pubRequestExpires = 0) =>
    /\ publishRefreshTimer = 0
    /\ pubTimers = {}
    /\ pubRequestBody = Undefined
    /\ pubRequestEtag = Undefined

\* the refresh timer fired with an entity tag held and a nonzero expiry
RefreshFired ==
  /\ pubLast.op = "refreshRequest"
  /\ pubLast.before.etag # Undefined
  /\ pubLast.before.expires # 0

\* C20 as stated: the PUBLISH of the refresh timer carries SIP-If-Match with
\* the entity tag held and the body last published.
C20_RefreshResendsBody ==
  RefreshFired =>
    /\ Len(pubLast.sent) = 1
    /\ pubLast.sent[1].ifMatch = pubLast.before.etag
    /\ pubLast.sent[1].body = pubLast.before.optBody

\* C20: when the refresh timer fires with an entity tag held and a nonzero
\* expiry, it sends exactly one PUBLISH, with SIP-If-Match set to the entity
\* tag held, the expiry as it is and no body; the body kept is cleared.
C20_RefreshSendsNoBody ==
  RefreshFired =>
    /\ pubLast.err = NoError
    /\ pubLast.sent = <<[expires |-> pubLast.before.expires,
                         ifMatch |-> pubLast.before.etag,
                         body |-> Undefined]>>
    /\ pubRequestBody = Undefined
    /\ pubRequestEtag = pubLast.before.etag

C20_Witness ==
  /\ RefreshFired
  /\ pubLast.before.optBody = "b1"
  /\ pubLast.before.state = "Published"
  /\ Len(pubLast.sent) = 1
  /\ pubLast.sent[1].ifMatch = "e1"

\* the SubscriberRequests that hold a request of the core (not disposed)
LiveRequests == {c \in 1..Len(requests) : requests[c].request = "live"}

\* C21: at most one SubscriberRequest holds a request at any time, and a
\* SubscriberRequest that a newer one has replaced is disposed: it holds no
\* request.
C21_OneLiveCoordinator ==
  /\ Cardinality(LiveRequests) <= 1
  /\ \A c \in LiveRequests : c = subscriberRequest

\* C22: while the publisher is neither Terminated nor disposed, whatever
\* publish() and unpublish() calls and responses came before, receiveResponse
\* handles a response with a transition or a new PUBLISH and throws nothing.
C22_ResponsesNeverThrow ==
  (pubLast.op = "receiveResponse"
     /\ pubLast.before.state # "Terminated" /\ ~pubLast.before.disposed) =>
    pubLast.err = NoError

\* C23: a 1xx response changes neither the state, the expiry, the entity
\* tag, the body kept nor the refresh timer, and sends nothing, in every
\* state of the publisher, also while the PUBLISH that removes the
\* publication (expiry 0) awaits its response.
C23_ProvisionalIgnored ==
  [][(pubLast'.op = "receiveResponse" /\ Is1xx(pubLast'.response.statusCode)) =>
       /\ pubLast'.sent = <<>>
       /\ pubLast'.err = NoError
       /\ UNCHANGED <<pubState, pubRequestExpires, pubRequestEtag, pubRequestBody,
                      publishRefreshTimer, pubTimers>>]_vars

\* C24: the callback of the refresh timer never runs with no entity tag or
\* with the expiry 0: refreshRequest never throws "Etag undefined" or
\* "Expires zero", whatever calls, responses and timers came before.
C24_RefreshNeverFatal ==
  pubLast.op = "refreshRequest" =>
    pubLast.err \notin {"Etag undefined", "Expires zero"}


\* C25: in every reachable state, public state Subscribed implies that a
\* dialog is set, and the promise of dispose() is never rejected with
\* "Dialog undefined.".
C25_SubscribedHasDialog ==
  /\ subState = "Subscribed" => dialog # 0
  /\ subDisposePromise # "rejected"

\* C26: a call to subscribe() on a Subscriber that is Terminated or disposed
\* sends no SUBSCRIBE, whatever the derived state of its coordinator.
C26_NoSubscribeAfterEnd ==
  (subLast.op = "subscribe"
     /\ (subLast.before.state = "Terminated" \/ subLast.before.disposed)) =>
    SentOfKind(subLast.sent, "SUBSCRIBE") = <<>>

\* C27: whenever the public state of the Publisher is Terminated, no refresh
\* timer is pending and no entity tag is held.
C27_TerminatedHoldsNothing ==
  pubState = "Terminated" =>
    /\ pubTimers = {}
    /\ publishRefreshTimer = 0
    /\ pubRequestEtag = Undefined


\* C28: after subscribe() on a Subscriber in state Initial, on a core that
\* delivers a first NOTIFY, a redirect, a reject or the notify-timeout, the
\* public state leaves NotifyWait for Subscribed or Terminated, unless the
\* Subscriber is disposed meanwhile.
C28_LeavesNotifyWait ==
  (subState = "NotifyWait" /\ ~subDisposed) ~>
    (subState \in {"Subscribed", "Terminated"} \/ subDisposed)

C28_Witness ==
  /\ subLast.op \in {"notify", "notifyTimeout", "redirect", "reject"}
  /\ subLast.before.state = "NotifyWait"
  /\ ~subLast.before.disposed
  /\ subLast.settled # "none"
  /\ subState \in {"Subscribed", "Terminated"}

=============================================================================
